---- MODULE Spec2Model ----
(***************************************************************************)
(* Model of the workspace / list / task backend: the pydantic schemas of   *)
(* schemas.py, the HTTP handlers of main.py and the document store adapter *)
(* (database.py: db, create_document, get_documents) the handlers call.    *)
(***************************************************************************)
EXTENDS Integers, Sequences, FiniteSets, TLC

VARIABLES
    db,        \* the module-level `db` imported from database: None or a handle
    env,       \* the process environment: DATABASE_URL, DATABASE_NAME
    store,     \* the collections of db: collection name -> sequence of documents
    next_oid,  \* the number the store's next generated ObjectId carries
    response,  \* the HTTP response to the request served last
    created,   \* history: the successful POSTs, each with its payload and its id
    call,      \* schema constructors: the call to make
    built,     \* schema constructors: what the call returned or raised
    threads    \* concurrent serving: each worker thread's request in progress

vars == <<db, env, store, next_oid, response, created, call, built, threads>>

-----------------------------------------------------------------------------
(* Python values.  Every value carries its type, so that a string, None, an *)
(* int, a list and the store's native ObjectId are different values.        *)

None == <<"None">>
Str(s) == <<"str", s>>
PyInt(i) == <<"int", i>>
PyBool(b) == <<"bool", b>>
PyList(xs) == <<"list", xs>>
PyDict(d) == <<"dict", d>>
DateTime(n) == <<"datetime", n>>
ObjectId(n) == <<"ObjectId", n>>
TypeOf(x) == x[1]
ValueOf(x) == x[2]

\* Python truthiness, as `x if value else y` applies it.
Truthy(x) ==
    CASE TypeOf(x) = "None" -> FALSE
      [] TypeOf(x) = "str" -> ValueOf(x) # ""
      [] TypeOf(x) = "int" -> ValueOf(x) # 0
      [] TypeOf(x) = "bool" -> ValueOf(x)
      [] TypeOf(x) = "list" -> ValueOf(x) # <<>>
      [] OTHER -> TRUE

HexChars == <<"0", "1", "2", "3", "4", "5", "6", "7",
              "8", "9", "a", "b", "c", "d", "e", "f">>

RECURSIVE Repeat(_, _)
Repeat(c, w) == IF w = 0 THEN "" ELSE Repeat(c, w - 1) \o c

\* Zeros[w] is w zeros.
Zeros == [w \in 0..24 |-> Repeat("0", w)]

RECURSIVE Hex(_, _)
\* n in w hexadecimal digits, zero-padded on the left.
Hex(n, w) ==
    IF w = 0 THEN ""
    ELSE IF n = 0 THEN Zeros[w]
    ELSE Hex(n \div 16, w - 1) \o HexChars[(n % 16) + 1]

\* str(x) for the values the handlers stringify: an ObjectId prints as its 24
\* hexadecimal digits, None as "None", a string as itself.
PyStr(x) ==
    CASE TypeOf(x) = "ObjectId" -> Str(Hex(ValueOf(x), 24))
      [] TypeOf(x) = "None" -> Str("None")
      [] TypeOf(x) = "str" -> x
      [] OTHER -> Str("<" \o TypeOf(x) \o ">")

\* dict.get(key): the value, or None when the key is absent.
DictGet(d, key) == IF key \in DOMAIN d THEN d[key] ELSE None

\* A mapping with key set to value (d[key] = value in Python).
DictSet(d, key, value) ==
    IF key \in DOMAIN d
    THEN [d EXCEPT ![key] = value]
    ELSE [k \in DOMAIN d \cup {key} |-> IF k = key THEN value ELSE d[k]]

Range(s) == {s[i] : i \in DOMAIN s}

Min(a, b) == IF a <= b THEN a ELSE b

\* s[:n], the first n elements of s (all of s when it has fewer).
Take(s, n) == SubSeq(s, 1, Min(n, Len(s)))

-----------------------------------------------------------------------------
(* schemas.py: the pydantic models.  A model is its table of fields; each   *)
(* field has a type, is required (Field(...) or no default) or has a        *)
(* default.                                                                 *)

StatusValues == {"todo", "in_progress", "review", "done"}
PriorityValues == {"none", "low", "medium", "high", "urgent"}

Required(n, ty) == [name |-> n, type |-> ty, required |-> TRUE, default |-> None]
Optional(n, ty, d) == [name |-> n, type |-> ty, required |-> FALSE, default |-> d]

User == <<
    Required("name", "str"),
    Required("email", "str"),
    Optional("avatar_url", "Optional[str]", None),
    Optional("is_active", "bool", PyBool(TRUE)) >>

Workspace == <<
    Required("name", "str"),
    Optional("description", "Optional[str]", None),
    Optional("owner_id", "Optional[str]", None),
    Optional("members", "List[str]", PyList(<<>>)) >>

Space == <<
    Required("name", "str"),
    Required("workspace_id", "str"),
    Optional("color", "Optional[str]", None) >>

Folder == <<
    Required("name", "str"),
    Required("space_id", "str") >>

ListModel == <<
    Required("name", "str"),
    Optional("workspace_id", "Optional[str]", None),
    Optional("space_id", "Optional[str]", None),
    Optional("folder_id", "Optional[str]", None),
    Optional("color", "Optional[str]", None) >>

Task == <<
    Required("title", "str"),
    Optional("description", "Optional[str]", None),
    Required("list_id", "str"),
    Optional("status", "Literal[status]", Str("todo")),
    Optional("priority", "Literal[priority]", Str("none")),
    Optional("assignees", "List[str]", PyList(<<>>)),
    Optional("due_date", "Optional[datetime]", None),
    Optional("tags", "List[str]", PyList(<<>>)) >>

Comment == <<
    Required("task_id", "str"),
    Optional("author_id", "Optional[str]", None),
    Required("body", "str") >>

\* main.py: the request bodies of the three POST endpoints.
CreateWorkspace == <<
    Required("name", "str"),
    Optional("description", "Optional[str]", None) >>

CreateList == <<
    Required("name", "str"),
    Optional("workspace_id", "Optional[str]", None) >>

CreateTask == <<
    Required("title", "str"),
    Optional("description", "Optional[str]", None),
    Required("list_id", "str") >>

\* The strings pydantic reads as a bool.
TrueWords == {"1", "on", "t", "true", "y", "yes"}
FalseWords == {"0", "off", "f", "false", "n", "no"}

\* pydantic's conversion of a value to a field's annotation before the check:
\* a bool field takes the words above and the integers 0 and 1; nothing is
\* converted into a str or into a Literal.
Coerce(ty, x) ==
    IF ty # "bool" THEN x
    ELSE IF TypeOf(x) = "str" /\ ValueOf(x) \in TrueWords THEN PyBool(TRUE)
    ELSE IF TypeOf(x) = "str" /\ ValueOf(x) \in FalseWords THEN PyBool(FALSE)
    ELSE IF TypeOf(x) = "int" /\ ValueOf(x) \in {0, 1} THEN PyBool(ValueOf(x) = 1)
    ELSE x

\* A check that takes any string for a Literal field.
Conforms_AnyString(ty, x) ==
    CASE ty \in {"str", "Literal[status]", "Literal[priority]"} -> TypeOf(x) = "str"
      [] ty = "Optional[str]" -> TypeOf(x) \in {"str", "None"}
      [] ty = "bool" -> TypeOf(Coerce(ty, x)) = "bool"
      [] ty = "List[str]" ->
            TypeOf(x) = "list" /\ \A i \in DOMAIN ValueOf(x) : TypeOf(ValueOf(x)[i]) = "str"
      [] ty = "Optional[datetime]" -> TypeOf(x) \in {"datetime", "None"}
      [] OTHER -> FALSE

\* pydantic's check of one value against a field's annotation: the value,
\* converted where the annotation allows, has the type or is rejected.
Conforms(ty, x) ==
    CASE ty = "str" -> TypeOf(x) = "str"
      [] ty = "Optional[str]" -> TypeOf(x) \in {"str", "None"}
      [] ty = "bool" -> TypeOf(Coerce(ty, x)) = "bool"
      [] ty = "List[str]" ->
            TypeOf(x) = "list" /\ \A i \in DOMAIN ValueOf(x) : TypeOf(ValueOf(x)[i]) = "str"
      [] ty = "Optional[datetime]" -> TypeOf(x) \in {"datetime", "None"}
      [] ty = "Literal[status]" -> TypeOf(x) = "str" /\ ValueOf(x) \in StatusValues
      [] ty = "Literal[priority]" -> TypeOf(x) = "str" /\ ValueOf(x) \in PriorityValues
      [] OTHER -> FALSE

FieldNames(model) == {model[i].name : i \in DOMAIN model}

\* The declaration of field f.
FieldOf(model, f) == model[CHOOSE i \in DOMAIN model : model[i].name = f]

\* The fields of `model` that `kwargs` violates: a required field left out, or a
\* supplied value that does not conform.  Defaults are not validated.
Violations(model, kwargs) ==
    {model[i].name : i \in
        {j \in DOMAIN model :
            IF model[j].name \in DOMAIN kwargs
            THEN ~Conforms(model[j].type, kwargs[model[j].name])
            ELSE model[j].required}}

\* A constructor that leaves a field left out empty instead of at its default.
Construct_NoDefaults(model, kwargs) ==
    LET bad == Violations(model, kwargs)
    IN IF bad # {}
       THEN [ok |-> FALSE, error |-> "ValidationError", fields |-> bad]
       ELSE [ok |-> TRUE,
             value |-> [f \in FieldNames(model) |->
                 IF f \in DOMAIN kwargs
                 THEN Coerce(FieldOf(model, f).type, kwargs[f]) ELSE None]]

\* Model(**kwargs): the populated record, every field left out at its default,
\* or ValidationError naming every violating field.  Arguments that name no
\* field are ignored (pydantic's default extra="ignore").
Construct(model, kwargs) ==
    LET bad == Violations(model, kwargs)
    IN IF bad # {}
       THEN [ok |-> FALSE, error |-> "ValidationError", fields |-> bad]
       ELSE [ok |-> TRUE,
             value |-> [f \in FieldNames(model) |->
                 IF f \in DOMAIN kwargs
                 THEN Coerce(FieldOf(model, f).type, kwargs[f])
                 ELSE FieldOf(model, f).default]]

-----------------------------------------------------------------------------
(* database.py: the document store adapter.  `ok` is whether the store      *)
(* carries out the operation; when it does not, the driver raises.          *)

Collections == <<"workspace", "listmodel", "task">>

EmptyStore == [c \in Range(Collections) |-> <<>>]

\* A document matches an exact-equality filter when every filtered field has
\* the filter's value; the empty filter matches every document.
Matches(doc, filter_dict) ==
    \A k \in DOMAIN filter_dict : DictGet(doc, k) = filter_dict[k]

\* create_document(collection_name, data): insert the record's fields under a
\* newly generated ObjectId and return the id's string form.  Raises when no
\* connection exists or the store rejects the insert.
create_document(collection_name, data, ok) ==
    IF db = None
    THEN [raised |-> TRUE, error |-> "Database not available",
          store |-> store, next_oid |-> next_oid]
    ELSE IF ~ok
    THEN [raised |-> TRUE, error |-> "StorageError",
          store |-> store, next_oid |-> next_oid]
    ELSE [raised |-> FALSE, value |-> PyStr(ObjectId(next_oid)),
          store |-> [store EXCEPT ![collection_name] =
                        Append(@, DictSet(data, "_id", ObjectId(next_oid)))],
          next_oid |-> next_oid + 1]

\* get_documents(collection_name, filter_dict, limit): up to `limit` matching
\* documents in the store's order; the empty sequence, not an error, when no
\* connection exists.  Raises when the store fails the query.
get_documents(collection_name, filter_dict, limit, ok) ==
    IF db = None
    THEN [raised |-> FALSE, value |-> <<>>]
    ELSE IF ~ok
    THEN [raised |-> TRUE, error |-> "StorageError"]
    ELSE [raised |-> FALSE,
          value |-> Take(SelectSeq(store[collection_name],
                                   LAMBDA doc : Matches(doc, filter_dict)),
                         limit)]

\* db.list_collection_names(): the collections that exist, which in the store
\* are those holding a document.
list_collection_names(ok) ==
    IF ~ok
    THEN [raised |-> TRUE, error |-> "StorageError"]
    ELSE [raised |-> FALSE,
          value |-> SelectSeq(Collections, LAMBDA c : store[c] # <<>>)]

-----------------------------------------------------------------------------
(* main.py: the handlers.  A handler's result is the HTTP response (status  *)
(* and body) and the store it leaves.                                       *)

Reply(status, body, st, oid) ==
    [status |-> status, body |-> body, store |-> st, next_oid |-> oid]

\* raise HTTPException(status_code=400, detail=str(e)): nothing was stored.
HTTPException(status_code, detail) ==
    Reply(status_code, PyDict([detail |-> Str(detail)]), store, next_oid)

\* The errors of a body that does not fit, as the set of fields in error.
ErrorList(fields) == <<"errors", fields>>

\* FastAPI validates a declared request body before the handler runs and
\* answers 422 itself when the body does not fit the declared model.
RequestValidationError(fields) ==
    Reply(422, PyDict([detail |-> ErrorList(fields)]), store, next_oid)

\* The items as the store returned them, the native key left in place.
StringifyIds_Native(items) == items

\* for it in items: it["_id"] = str(it.get("_id"))
StringifyIds(items) ==
    [i \in DOMAIN items |-> DictSet(items[i], "_id", PyStr(DictGet(items[i], "_id")))]

\* The limit each list endpoint passes to get_documents.
WorkspaceLimit == 50
ListLimit == 200
TaskLimit == 500

read_root == Reply(200, PyDict([message |-> Str("Backend running")]), store, next_oid)

get_schema ==
    Reply(200,
          PyDict([user |-> User, workspace |-> Workspace, space |-> Space,
                  folder |-> Folder, list |-> ListModel, task |-> Task,
                  comment |-> Comment]),
          store, next_oid)

create_workspace(payload, ok) ==
    LET ws == Construct(Workspace,
                  [name |-> payload.name, description |-> payload.description])
    IN IF ~ws.ok THEN HTTPException(400, ws.error)
       ELSE LET r == create_document("workspace", ws.value, ok)
            IN IF r.raised THEN HTTPException(400, r.error)
               ELSE Reply(200, PyDict([id |-> r.value]), r.store, r.next_oid)

list_workspaces(ok) ==
    LET r == get_documents("workspace", <<>>, WorkspaceLimit, ok)
    IN IF r.raised THEN HTTPException(400, r.error)
       ELSE Reply(200, PyList(StringifyIds(r.value)), store, next_oid)

\* A create that does not pass the workspace_id on.
create_list_NoWorkspace(payload, ok) ==
    LET lst == Construct(ListModel, [name |-> payload.name])
    IN IF ~lst.ok THEN HTTPException(400, lst.error)
       ELSE LET r == create_document("listmodel", lst.value, ok)
            IN IF r.raised THEN HTTPException(400, r.error)
               ELSE Reply(200, PyDict([id |-> r.value]), r.store, r.next_oid)

create_list(payload, ok) ==
    LET lst == Construct(ListModel,
                   [name |-> payload.name, workspace_id |-> payload.workspace_id])
    IN IF ~lst.ok THEN HTTPException(400, lst.error)
       ELSE LET r == create_document("listmodel", lst.value, ok)
            IN IF r.raised THEN HTTPException(400, r.error)
               ELSE Reply(200, PyDict([id |-> r.value]), r.store, r.next_oid)

list_lists(workspace_id, ok) ==
    LET filter_q == IF Truthy(workspace_id)
                    THEN [workspace_id |-> workspace_id] ELSE <<>>
        r == get_documents("listmodel", filter_q, ListLimit, ok)
    IN IF r.raised THEN HTTPException(400, r.error)
       ELSE Reply(200, PyList(StringifyIds(r.value)), store, next_oid)

\* A create that refuses a task whose list_id names no stored list.
create_task_Checked(payload, ok) ==
    LET task == Construct(Task,
                    [title |-> payload.title, description |-> payload.description,
                     list_id |-> payload.list_id])
    IN IF ~task.ok THEN HTTPException(400, task.error)
       ELSE IF \A d \in Range(store.listmodel) : PyStr(d._id) # payload.list_id
       THEN HTTPException(400, "List not found")
       ELSE LET r == create_document("task", task.value, ok)
            IN IF r.raised THEN HTTPException(400, r.error)
               ELSE Reply(200, PyDict([id |-> r.value]), r.store, r.next_oid)

create_task(payload, ok) ==
    LET task == Construct(Task,
                    [title |-> payload.title, description |-> payload.description,
                     list_id |-> payload.list_id])
    IN IF ~task.ok THEN HTTPException(400, task.error)
       ELSE LET r == create_document("task", task.value, ok)
            IN IF r.raised THEN HTTPException(400, r.error)
               ELSE Reply(200, PyDict([id |-> r.value]), r.store, r.next_oid)

list_tasks(list_id, ok) ==
    LET filter_q == IF Truthy(list_id) THEN [list_id |-> list_id] ELSE <<>>
        r == get_documents("task", filter_q, TaskLimit, ok)
    IN IF r.raised THEN HTTPException(400, r.error)
       ELSE Reply(200, PyList(StringifyIds(r.value)), store, next_oid)

\* os.getenv(name): the variable's value, or None when it is not set.
getenv(name) == env[name]

MarkSet == Str("(ok) Set")
MarkNotSet == Str("(x) Not Set")

\* GET /test up to its environment check: what the connection test found.
\* The status strings stand for the source's (which begin with a pictograph);
\* str(e)[:50] is the error's name, shorter than 50 characters.
test_connection(ok) ==
    LET r0 == [backend |-> Str("(ok) Running"),
               database |-> Str("(x) Not Available"),
               database_url |-> None,
               database_name |-> None,
               connection_status |-> Str("Not Connected"),
               collections |-> PyList(<<>>)]
    IN IF db # None
       THEN LET a == [r0 EXCEPT
                        !.database = Str("(ok) Available"),
                        !.database_url = Str("(ok) Configured"),
                        !.database_name = Str(ValueOf(db)),
                        !.connection_status = Str("Connected")]
                c == list_collection_names(ok)
            IN IF c.raised
               THEN [a EXCEPT !.database =
                         Str("(!) Connected but Error: " \o c.error)]
               ELSE [a EXCEPT
                       !.collections = PyList(Take(c.value, 10)),
                       !.database = Str("(ok) Connected & Working")]
       ELSE [r0 EXCEPT !.database = Str("(!) Available but not initialized")]

\* A GET /test that answers what the connection test found, the database's
\* name included.
test_database_Leaky(ok) ==
    Reply(200, PyDict(test_connection(ok)), store, next_oid)

\* GET /test: the connection test's findings, with database_url and
\* database_name overwritten by whether the variables are set.
test_database(ok) ==
    LET r1 == test_connection(ok)
        r2 == [r1 EXCEPT
                 !.database_url =
                     IF Truthy(getenv("DATABASE_URL")) THEN MarkSet ELSE MarkNotSet,
                 !.database_name =
                     IF Truthy(getenv("DATABASE_NAME")) THEN MarkSet ELSE MarkNotSet]
    IN Reply(200, PyDict(r2), store, next_oid)

-----------------------------------------------------------------------------
(* Bounds and the inputs the requests are drawn from.                       *)

\* The most documents one run's POSTs add to a store found empty, and to a
\* store found with a full collection.
MaxCreates == 2
MaxFullCreates == 1

WorkspaceBodies == {
    [name |-> Str("Acme")],
    [name |-> Str("Beta"), description |-> Str("second")],
    [description |-> Str("no name")],
    [name |-> PyInt(7)] }

ListBodies == {
    [name |-> Str("Backlog")],
    [name |-> Str("Backlog"), workspace_id |-> Str("W1")],
    [name |-> Str("Sprint"), workspace_id |-> Str("W2")],
    [name |-> Str("Inbox"), workspace_id |-> Str("")],
    [workspace_id |-> Str("W1")] }

TaskBodies == {
    [title |-> Str("Fix bug"), list_id |-> Str("L1")],
    [title |-> Str("Write docs"), description |-> Str("soon"), list_id |-> Str("L2")],
    [title |-> Str("Fix bug"), list_id |-> Str("L1"), status |-> Str("bogus")],
    [title |-> Str("No list")],
    [title |-> PyInt(7), list_id |-> Str("L1")] }

\* The values of an optional query parameter: not given (None), given empty,
\* or given with a value.
WorkspaceIdParams == {None, Str(""), Str("W1"), Str("W2")}
ListIdParams == {None, Str(""), Str("L1"), Str("L2")}

Database == <<"Database", "appdb">>

EnvValues(name) ==
    {None, Str(""),
     Str(IF name = "DATABASE_URL" THEN "mongodb://host:27017" ELSE "appdb")}

\* n documents as n earlier POSTs with the same body left them.
Stored(record, first, n) ==
    [i \in 1..n |-> DictSet(record, "_id", ObjectId(first + i - 1))]

\* A store found with one collection holding as many documents as its endpoint
\* returns at most.
FullStores == {
    [EmptyStore EXCEPT !.workspace =
        Stored(Construct(Workspace, [name |-> Str("Acme"), description |-> None]).value,
               0, WorkspaceLimit)],
    [EmptyStore EXCEPT !.listmodel =
        Stored(Construct(ListModel,
                   [name |-> Str("Backlog"), workspace_id |-> Str("W1")]).value,
               0, ListLimit)],
    [EmptyStore EXCEPT !.task =
        Stored(Construct(Task,
                   [title |-> Str("Fix bug"), description |-> None,
                    list_id |-> Str("L1")]).value,
               0, TaskLimit)] }

StoreSize(st) == Len(st.workspace) + Len(st.listmodel) + Len(st.task)

NoResponse == [op |-> "none", request |-> None, status |-> 0, body |-> None]
NoCall == [model |-> "none", kwargs |-> <<>>]
NotBuilt == [ok |-> FALSE, error |-> "not called", fields |-> {}]
NoThreads == <<>>

\* The state no request has touched.
Untouched ==
    /\ next_oid = StoreSize(store)
    /\ response = NoResponse
    /\ created = {}
    /\ call = NoCall
    /\ built = NotBuilt
    /\ threads = NoThreads

\* The process after import, on a store holding nothing yet: db is a handle when
\* DATABASE_URL and DATABASE_NAME were set and the connection was made, and
\* None otherwise.
Init ==
    /\ db \in {None, Database}
    /\ \E url \in EnvValues("DATABASE_URL"), name \in EnvValues("DATABASE_NAME") :
          /\ db # None => Truthy(url) /\ Truthy(name)
          /\ env = [DATABASE_URL |-> url, DATABASE_NAME |-> name]
    /\ store = EmptyStore
    /\ Untouched

\* The connected process on a store earlier runs filled.
InitFull ==
    /\ db = Database
    /\ env = [DATABASE_URL |-> Str("mongodb://host:27017"),
              DATABASE_NAME |-> Str("appdb")]
    /\ store \in FullStores
    /\ Untouched

-----------------------------------------------------------------------------
(* One request served from start to end.                                    *)

Respond(op, request, r) ==
    /\ response' = [op |-> op, request |-> request,
                    status |-> r.status, body |-> r.body]
    /\ store' = r.store
    /\ next_oid' = r.next_oid

\* The history of successful POSTs, after one answered r.
Record(kind, fields, r) ==
    IF r.status = 200
    THEN created \cup {[kind |-> kind, id |-> ValueOf(r.body).id, fields |-> fields]}
    ELSE created

GetRoot ==
    /\ Respond("read_root", None, read_root)
    /\ UNCHANGED <<db, env, created, call, built, threads>>

GetSchema ==
    /\ Respond("get_schema", None, get_schema)
    /\ UNCHANGED <<db, env, created, call, built, threads>>

\* POST /workspaces: FastAPI fits the body to CreateWorkspace, then calls the
\* handler.
post_workspaces(body, ok) ==
    LET payload == Construct(CreateWorkspace, body)
    IN IF payload.ok THEN create_workspace(payload.value, ok)
       ELSE RequestValidationError(payload.fields)

post_lists(body, ok) ==
    LET payload == Construct(CreateList, body)
    IN IF payload.ok THEN create_list(payload.value, ok)
       ELSE RequestValidationError(payload.fields)

post_tasks(body, ok) ==
    LET payload == Construct(CreateTask, body)
    IN IF payload.ok THEN create_task(payload.value, ok)
       ELSE RequestValidationError(payload.fields)

PostWorkspaces(cap) ==
    \E body \in WorkspaceBodies, ok \in BOOLEAN :
        LET r == post_workspaces(body, ok)
        IN /\ r.status = 200 => Cardinality(created) < cap
           /\ Respond("create_workspace", PyDict(body), r)
           /\ created' = Record("workspace", body, r)
           /\ UNCHANGED <<db, env, call, built, threads>>

GetWorkspaces ==
    \E ok \in BOOLEAN :
        /\ Respond("list_workspaces", None, list_workspaces(ok))
        /\ UNCHANGED <<db, env, created, call, built, threads>>

PostLists(cap) ==
    \E body \in ListBodies, ok \in BOOLEAN :
        LET r == post_lists(body, ok)
        IN /\ r.status = 200 => Cardinality(created) < cap
           /\ Respond("create_list", PyDict(body), r)
           /\ created' = Record("listmodel", body, r)
           /\ UNCHANGED <<db, env, call, built, threads>>

GetLists ==
    \E workspace_id \in WorkspaceIdParams, ok \in BOOLEAN :
        /\ Respond("list_lists", workspace_id, list_lists(workspace_id, ok))
        /\ UNCHANGED <<db, env, created, call, built, threads>>

PostTasks(cap) ==
    \E body \in TaskBodies, ok \in BOOLEAN :
        LET r == post_tasks(body, ok)
        IN /\ r.status = 200 => Cardinality(created) < cap
           /\ Respond("create_task", PyDict(body), r)
           /\ created' = Record("task", body, r)
           /\ UNCHANGED <<db, env, call, built, threads>>

GetTasks ==
    \E list_id \in ListIdParams, ok \in BOOLEAN :
        /\ Respond("list_tasks", list_id, list_tasks(list_id, ok))
        /\ UNCHANGED <<db, env, created, call, built, threads>>

GetTest ==
    \E ok \in BOOLEAN :
        /\ Respond("test_database", None, test_database(ok))
        /\ UNCHANGED <<db, env, created, call, built, threads>>

Next ==
    \/ GetRoot
    \/ GetSchema
    \/ PostWorkspaces(MaxCreates)
    \/ GetWorkspaces
    \/ PostLists(MaxCreates)
    \/ GetLists
    \/ PostTasks(MaxCreates)
    \/ GetTasks
    \/ GetTest

Spec == Init /\ [][Next]_vars

NextFull ==
    \/ GetRoot
    \/ GetSchema
    \/ PostWorkspaces(MaxFullCreates)
    \/ GetWorkspaces
    \/ PostLists(MaxFullCreates)
    \/ GetLists
    \/ PostTasks(MaxFullCreates)
    \/ GetTasks
    \/ GetTest

SpecFull == InitFull /\ [][NextFull]_vars

-----------------------------------------------------------------------------
(* The schema constructors called directly: the call is drawn when the run  *)
(* starts and ConstructCall makes it.  The POST handlers, which construct   *)
(* Workspace, ListModel and Task themselves, run beside it.                 *)

MaxSchemaCreates == 1

Absent == <<"absent">>

\* The keyword arguments a call gives: the fields not left out.
Given(a) == [f \in {g \in DOMAIN a : a[g] # Absent} |-> a[f]]

Models == [User |-> User, Workspace |-> Workspace, Space |-> Space,
           Folder |-> Folder, ListModel |-> ListModel, Task |-> Task,
           Comment |-> Comment]

CallsOf(model, args) == {[model |-> model, kwargs |-> Given(a)] : a \in args}

Calls ==
    CallsOf("Task",
        [title : {Absent, Str("Fix bug")},
         list_id : {Absent, Str("L1")},
         status : {Absent, Str("todo"), Str("in_progress"), Str("review"),
                   Str("done"), Str("bogus"), Str("TODO")}])
    \cup CallsOf("Task",
        [title : {Str("Fix bug")},
         list_id : {Str("L1")},
         status : {Absent, Str("done"), Str("bogus")},
         priority : {Absent, Str("none"), Str("low"), Str("medium"),
                     Str("high"), Str("urgent"), Str("critical")}])
    \cup CallsOf("Task",
        [title : {Str("Fix bug")},
         list_id : {Str("L1")},
         description : {Absent, Str("soon")},
         status : {Absent, PyInt(1)},
         assignees : {Absent, PyList(<<Str("u1")>>), Str("u1")},
         due_date : {Absent, DateTime(1)},
         tags : {Absent, PyList(<<Str("x"), Str("y")>>)}])
    \cup CallsOf("Workspace",
        [name : {Absent, Str("Acme"), PyInt(7)},
         description : {Absent, Str("first")},
         owner_id : {Absent, Str("u1")},
         members : {Absent, PyList(<<Str("u1")>>)}])
    \cup CallsOf("ListModel",
        [name : {Absent, Str("Backlog")},
         workspace_id : {Absent, None, Str("W1")},
         color : {Absent, Str("red")}])
    \cup CallsOf("User",
        [name : {Absent, Str("Ann")},
         email : {Absent, Str("ann@example.org")},
         is_active : {Absent, PyBool(FALSE), Str("no"), Str("maybe")}])
    \cup CallsOf("Space",
        [name : {Absent, Str("Dev")},
         workspace_id : {Absent, Str("W1")},
         color : {Absent, Str("red")}])
    \cup CallsOf("Folder",
        [name : {Absent, Str("Docs")},
         space_id : {Absent, Str("S1")}])
    \cup CallsOf("Comment",
        [task_id : {Absent, Str("T1")},
         author_id : {Absent, Str("u1")},
         body : {Absent, Str("hello")}])

InitSchema ==
    /\ db = Database
    /\ env = [DATABASE_URL |-> Str("mongodb://host:27017"),
              DATABASE_NAME |-> Str("appdb")]
    /\ store = EmptyStore
    /\ next_oid = 0
    /\ response = NoResponse
    /\ created = {}
    /\ call \in Calls
    /\ built = NotBuilt
    /\ threads = NoThreads

\* The call is made: built is the record constructed or the error raised.
ConstructCall ==
    /\ built = NotBuilt
    /\ built' = Construct(Models[call.model], call.kwargs)
    /\ UNCHANGED <<db, env, store, next_oid, response, created, call, threads>>

NextSchema ==
    \/ ConstructCall
    \/ PostWorkspaces(MaxSchemaCreates)
    \/ PostTasks(MaxSchemaCreates)

SpecSchema == InitSchema /\ [][NextSchema]_vars

-----------------------------------------------------------------------------
(* Concurrent serving.  The handlers are plain functions, which the server  *)
(* runs on worker threads: requests overlap.  A handler reaches the store   *)
(* through one adapter call, so a request takes effect in one step, Serve,  *)
(* between its arrival and the next request of its thread.                  *)

Threads == {1, 2}

MaxConcCreates == 2

\* The requests that arrive, as a table.
Requests == <<
    [op |-> "read_root", arg |-> None],
    [op |-> "get_schema", arg |-> None],
    [op |-> "create_workspace", arg |-> PyDict([name |-> Str("Acme")])],
    [op |-> "list_workspaces", arg |-> None],
    [op |-> "create_list",
     arg |-> PyDict([name |-> Str("Backlog"), workspace_id |-> Str("W1")])],
    [op |-> "list_lists", arg |-> Str("W1")],
    [op |-> "create_task",
     arg |-> PyDict([title |-> Str("Fix bug"), list_id |-> Str("L1")])],
    [op |-> "create_task", arg |-> PyDict([title |-> Str("No list")])],
    [op |-> "list_tasks", arg |-> None],
    [op |-> "test_database", arg |-> None] >>

\* The route table: the handler the server calls for a request.
Handle(req, ok) ==
    CASE req.op = "read_root" -> read_root
      [] req.op = "get_schema" -> get_schema
      [] req.op = "create_workspace" -> post_workspaces(ValueOf(req.arg), ok)
      [] req.op = "list_workspaces" -> list_workspaces(ok)
      [] req.op = "create_list" -> post_lists(ValueOf(req.arg), ok)
      [] req.op = "list_lists" -> list_lists(req.arg, ok)
      [] req.op = "create_task" -> post_tasks(ValueOf(req.arg), ok)
      [] req.op = "list_tasks" -> list_tasks(req.arg, ok)
      [] req.op = "test_database" -> test_database(ok)

KindOf(op) ==
    CASE op = "create_workspace" -> "workspace"
      [] op = "create_list" -> "listmodel"
      [] op = "create_task" -> "task"
      [] OTHER -> "none"

Idle == [pc |-> "idle"]

InitConc ==
    /\ db = Database
    /\ env = [DATABASE_URL |-> Str("mongodb://host:27017"),
              DATABASE_NAME |-> Str("appdb")]
    /\ store = EmptyStore
    /\ next_oid = 0
    /\ response = NoResponse
    /\ created = {}
    /\ call = NoCall
    /\ built = NotBuilt
    /\ threads = [t \in Threads |-> Idle]

\* A request arrives at a thread that is free (its last response went out).
Accept(t) ==
    \E i \in DOMAIN Requests :
        /\ threads[t].pc \in {"idle", "served"}
        /\ threads' = [threads EXCEPT ![t] = [pc |-> "accepted", req |-> Requests[i]]]
        /\ UNCHANGED <<db, env, store, next_oid, response, created, call, built>>

\* The thread's handler runs: its one store operation takes effect and the
\* thread holds the response.
Serve(t) ==
    \E ok \in BOOLEAN :
        LET req == threads[t].req
            r == Handle(req, ok)
        IN /\ threads[t].pc = "accepted"
           /\ (KindOf(req.op) # "none" /\ r.status = 200)
                 => Cardinality(created) < MaxConcCreates
           /\ store' = r.store
           /\ next_oid' = r.next_oid
           /\ threads' = [threads EXCEPT ![t] =
                            [pc |-> "served", req |-> req,
                             status |-> r.status, body |-> r.body]]
           /\ created' = IF KindOf(req.op) # "none"
                         THEN Record(KindOf(req.op), ValueOf(req.arg), r)
                         ELSE created
           /\ UNCHANGED <<db, env, response, call, built>>

NextConc == \E t \in Threads : Accept(t) \/ Serve(t)

SpecConc == InitConc /\ [][NextConc]_vars

-----------------------------------------------------------------------------
(* What the properties speak of.                                            *)

ListOps == {"list_workspaces", "list_lists", "list_tasks"}
CreateOps == {"create_workspace", "create_list", "create_task"}

\* The collection a list endpoint reads, the field its query parameter names,
\* its cap, and the request body of the collection's POST.
CollectionOf(op) ==
    CASE op = "list_workspaces" -> "workspace"
      [] op = "list_lists" -> "listmodel"
      [] op = "list_tasks" -> "task"

KeyOf(op) ==
    CASE op = "list_workspaces" -> "none"
      [] op = "list_lists" -> "workspace_id"
      [] op = "list_tasks" -> "list_id"

CapOf(op) ==
    CASE op = "list_workspaces" -> 50
      [] op = "list_lists" -> 200
      [] op = "list_tasks" -> 500

BodyFields(kind) ==
    CASE kind = "workspace" -> {"name", "description"}
      [] kind = "listmodel" -> {"name", "workspace_id"}
      [] kind = "task" -> {"title", "description", "list_id"}

\* The last request was a list request that was answered with records.
\* What the response carries: the records of a list response, the mapping of
\* any other.
Body == ValueOf(response.body)

Listed == response.op \in ListOps /\ response.status = 200

\* The value a created record has in the field a list endpoint filters on:
\* None when the POST left the field out.
KeyValue(c, op) == IF KeyOf(op) = "none" THEN None ELSE DictGet(c.fields, KeyOf(op))

\* The list request asked for the records with c's own key.
AsksFor(c) ==
    /\ Listed
    /\ c.kind = CollectionOf(response.op)
    /\ response.request = KeyValue(c, response.op)

Occurrences(c) == Cardinality({i \in DOMAIN Body : Body[i]._id = c.id})

\* Every returned record with c's id has the field values c was posted with.
SameFields(c) ==
    \A i \in DOMAIN Body :
        Body[i]._id = c.id =>
            \A f \in BodyFields(c.kind) \cap DOMAIN c.fields :
                DictGet(Body[i], f) = c.fields[f]

NonEmptyString(x) == TypeOf(x) = "str" /\ ValueOf(x) # ""

\* The documents a list request selects: those whose key field equals the
\* parameter, and every document when the parameter is not given or is empty.
Selected(op, param) ==
    IF param = None \/ param = Str("")
    THEN store[CollectionOf(op)]
    ELSE SelectSeq(store[CollectionOf(op)], LAMBDA d : DictGet(d, KeyOf(op)) = param)

\* C1 as claimed: a record a successful POST created appears exactly once in the
\* matching list response (GET /workspaces; GET /lists, GET /tasks with its own
\* key), with the field values it was posted with and the non-empty string id
\* the POST returned.
C1_RoundTripAlways ==
    \A c \in created :
        AsksFor(c) => Occurrences(c) = 1 /\ SameFields(c) /\ NonEmptyString(c.id)

\* C1 amended: the record appears at most once, with the field values it was
\* posted with and the non-empty string id the POST returned, and exactly once
\* when the request selects no more documents than the endpoint's cap (50, 200,
\* 500); beyond the cap the response is the first `cap` documents selected.
C1_RoundTripWithinCap ==
    \A c \in created :
        AsksFor(c) =>
            /\ Occurrences(c) <= 1
            /\ SameFields(c)
            /\ NonEmptyString(c.id)
            /\ Len(Selected(response.op, response.request)) <= CapOf(response.op)
                  => Occurrences(c) = 1

\* A list created with workspace_id W2 is read back by GET /lists?workspace_id=W2
\* and is in the response once.
C1_Witness ==
    \E c \in created :
        /\ AsksFor(c)
        /\ c.kind = "listmodel"
        /\ response.request = Str("W2")
        /\ Occurrences(c) = 1

\* The documents that match a list request as the interface describes it: those
\* whose key field equals the parameter when it is given, all when it is not.
Matching(op, param) ==
    IF param = None
    THEN store[CollectionOf(op)]
    ELSE SelectSeq(store[CollectionOf(op)], LAMBDA d : DictGet(d, KeyOf(op)) = param)

\* C2 as claimed: GET /lists with workspace_id=v given, and GET /tasks with
\* list_id=v given, return only records whose field equals v, for every v; with
\* the parameter not given no filter is applied.
C2_FilterWhenGiven ==
    (Listed /\ KeyOf(response.op) # "none") =>
        IF response.request # None
        THEN \A i \in DOMAIN Body :
                DictGet(Body[i], KeyOf(response.op)) = response.request
        ELSE Len(Body) =
                Min(CapOf(response.op), Len(store[CollectionOf(response.op)]))

\* C3 as claimed: a list response holds min(limit, number of matching documents)
\* records, limit being 50, 200 and 500, and never more than its cap.
C3_LimitOfMatching ==
    Listed =>
        /\ Len(Body) =
              Min(CapOf(response.op), Len(Matching(response.op, response.request)))
        /\ Len(Body) <= CapOf(response.op)

\* C4 as claimed: with no store connection every list request answers the empty
\* sequence without error and every POST fails with HTTP 400 and no identifier.
C4_DegradedMode ==
    db = None =>
        /\ response.op \in ListOps => response.status = 200 /\ Body = <<>>
        /\ response.op \in CreateOps =>
              response.status = 400 /\ "id" \notin DOMAIN Body

\* C5 as claimed: every failed create or list request, whether the input was
\* malformed or the store failed, is answered with HTTP 400 and the error's
\* string as detail, and carries no identifier.
C5_EveryFailureIs400 ==
    (response.op \in CreateOps \cup ListOps /\ response.status # 200) =>
        /\ response.status = 400
        /\ TypeOf(Body.detail) = "str"
        /\ "id" \notin DOMAIN Body

\* C8: every record of a list response carries its identifier as a non-empty
\* string, the string form of a stored document's native key and never the key
\* itself, and that string is the id the POST that created the record returned.
C8_IdsAreStrings ==
    Listed =>
        \A i \in DOMAIN Body :
            LET it == Body[i]
            IN /\ "_id" \in DOMAIN it
               /\ NonEmptyString(it._id)
               /\ Len(ValueOf(it._id)) = 24
               /\ \E d \in Range(store[CollectionOf(response.op)]) :
                     /\ TypeOf(d._id) = "ObjectId"
                     /\ ValueOf(it._id) = Hex(ValueOf(d._id), 24)
                     /\ \A f \in DOMAIN d \ {"_id"} : it[f] = d[f]
               /\ \E c \in created :
                     /\ c.kind = CollectionOf(response.op)
                     /\ c.id = it._id
                     /\ \A f \in BodyFields(c.kind) \cap DOMAIN c.fields :
                           it[f] = c.fields[f]

\* GET /tasks answers with two records.
C8_Witness ==
    /\ Listed
    /\ response.op = "list_tasks"
    /\ Len(Body) = 2

TestKeys == {"backend", "database", "database_url", "database_name",
             "connection_status", "collections"}

\* What an environment entry of GET /test says of variable `name`: one of the
\* two marks, the not-set mark when the variable is absent, the set mark when
\* it has a non-empty value, and never the value.
ReportsPresence(entry, name) ==
    /\ entry \in {MarkSet, MarkNotSet}
    /\ env[name] = None => entry = MarkNotSet
    /\ (env[name] # None /\ ValueOf(env[name]) # "") => entry = MarkSet
    /\ entry # env[name]

\* C9: GET /test never fails, with no connection, connected, or connected with
\* the listing of collections raising: it answers a mapping whose status entries
\* are strings, and its database_url and database_name entries say only whether
\* DATABASE_URL and DATABASE_NAME are set.
C9_TestNeverFails ==
    response.op = "test_database" =>
        /\ response.status = 200
        /\ DOMAIN Body = TestKeys
        /\ \A k \in TestKeys \ {"collections"} : TypeOf(Body[k]) = "str"
        /\ TypeOf(Body.collections) = "list"
        /\ ReportsPresence(Body.database_url, "DATABASE_URL")
        /\ ReportsPresence(Body.database_name, "DATABASE_NAME")

\* GET /test was answered by a connected process whose listing of collections
\* raised.
C9_Witness ==
    /\ response.op = "test_database"
    /\ db # None
    /\ Body.database = Str("(!) Connected but Error: StorageError")

-----------------------------------------------------------------------------
(* The data model as documented: the fields of each entity, those required, *)
(* the values a field admits and the default of a field left out.           *)

DocumentedFields ==
    [User |-> {"name", "email", "avatar_url", "is_active"},
     Workspace |-> {"name", "description", "owner_id", "members"},
     Space |-> {"name", "workspace_id", "color"},
     Folder |-> {"name", "space_id"},
     ListModel |-> {"name", "workspace_id", "space_id", "folder_id", "color"},
     Task |-> {"title", "list_id", "description", "status", "priority",
               "assignees", "due_date", "tags"},
     Comment |-> {"task_id", "body", "author_id"}]

DocumentedRequired ==
    [User |-> {"name", "email"},
     Workspace |-> {"name"},
     Space |-> {"name", "workspace_id"},
     Folder |-> {"name", "space_id"},
     ListModel |-> {"name"},
     Task |-> {"title", "list_id"},
     Comment |-> {"task_id", "body"}]

DocumentedStatus == {"todo", "in_progress", "review", "done"}
DocumentedPriority == {"none", "low", "medium", "high", "urgent"}

IsStrings(x) ==
    TypeOf(x) = "list" /\ \A i \in DOMAIN ValueOf(x) : TypeOf(ValueOf(x)[i]) = "str"

InStatus(x) == TypeOf(x) = "str" /\ ValueOf(x) \in DocumentedStatus
InPriority(x) == TypeOf(x) = "str" /\ ValueOf(x) \in DocumentedPriority

\* The value x is one the documented field f of `model` admits.
Admits(model, f, x) ==
    CASE f \in {"members", "assignees", "tags"} -> IsStrings(x)
      [] f = "is_active" -> TypeOf(x) = "bool"
      [] f = "due_date" -> TypeOf(x) \in {"datetime", "None"}
      [] f = "status" -> InStatus(x)
      [] f = "priority" -> InPriority(x)
      [] f \in DocumentedRequired[model] -> TypeOf(x) = "str"
      [] OTHER -> TypeOf(x) \in {"str", "None"}

DocumentedDefault(model, f) ==
    CASE f = "status" -> Str("todo")
      [] f = "priority" -> Str("none")
      [] f \in {"members", "assignees", "tags"} -> PyList(<<>>)
      [] f = "is_active" -> PyBool(TRUE)
      [] OTHER -> None

\* The constructor call of the state was made.
Called == call.model # "none" /\ built # NotBuilt

\* The call supplies every required field and only admitted values.
ValidCall ==
    /\ DocumentedRequired[call.model] \subseteq DOMAIN call.kwargs
    /\ \A f \in DOMAIN call.kwargs \cap DocumentedFields[call.model] :
          Admits(call.model, f, call.kwargs[f])

\* C6: for every valid payload supplying the required fields, construction
\* succeeds, every supplied field keeps its value and every field not
\* supplied takes its documented default; every task POST /tasks persisted
\* has status "todo", priority "none", assignees [] and tags [], and every
\* workspace POST /workspaces persisted has members [].
C6_Defaults ==
    /\ (Called /\ ValidCall) =>
          /\ built.ok
          /\ DOMAIN built.value = DocumentedFields[call.model]
          /\ \A f \in DocumentedFields[call.model] :
                built.value[f] = IF f \in DOMAIN call.kwargs
                                 THEN call.kwargs[f]
                                 ELSE DocumentedDefault(call.model, f)
    /\ \A i \in DOMAIN store.task :
          /\ store.task[i].status = Str("todo")
          /\ store.task[i].priority = Str("none")
          /\ store.task[i].assignees = PyList(<<>>)
          /\ store.task[i].tags = PyList(<<>>)
    /\ \A i \in DOMAIN store.workspace :
          store.workspace[i].members = PyList(<<>>)

\* A Task was constructed from title and list_id alone, and POST /tasks
\* persisted a task whose body named a status.
C6_Witness ==
    /\ Called /\ call.model = "Task"
    /\ DOMAIN call.kwargs = {"title", "list_id"}
    /\ built.ok /\ built.value.status = Str("todo")
    /\ response.op = "create_task" /\ response.status = 200
    /\ "status" \in DOMAIN ValueOf(response.request)
    /\ store.task # <<>>

\* The Task call names a status, or a priority, outside its enumerated set.
OutsideStatus ==
    "status" \in DOMAIN call.kwargs /\ ~InStatus(call.kwargs.status)
OutsidePriority ==
    "priority" \in DOMAIN call.kwargs /\ ~InPriority(call.kwargs.priority)

\* C7: constructing a Task whose status or priority is outside its enumerated
\* set fails with ValidationError naming the field, and no record is built
\* (the value is rejected, not coerced); a Task that was built has both inside
\* their sets, and so has every persisted task in every reachable store.
C7_EnumValidation ==
    /\ (Called /\ call.model = "Task") =>
          /\ OutsideStatus =>
                ~built.ok /\ built.error = "ValidationError"
                          /\ "status" \in built.fields
          /\ OutsidePriority =>
                ~built.ok /\ built.error = "ValidationError"
                          /\ "priority" \in built.fields
          /\ built.ok =>
                InStatus(built.value.status) /\ InPriority(built.value.priority)
    /\ \A i \in DOMAIN store.task :
          InStatus(store.task[i].status) /\ InPriority(store.task[i].priority)

\* A Task call with status "TODO" (a set member in the wrong case) was made
\* and refused, and a task is persisted.
C7_Witness ==
    /\ Called /\ call.model = "Task"
    /\ "status" \in DOMAIN call.kwargs /\ call.kwargs.status = Str("TODO")
    /\ ~built.ok
    /\ store.task # <<>>

-----------------------------------------------------------------------------
(* The frame of a step taken while requests overlap.                        *)

\* Thread t's handler ran in this step.
Served(t) == threads[t].pc = "accepted" /\ threads'[t].pc = "served"

\* Thread t's request was a POST and this step answered it 200.
Created(t) ==
    /\ Served(t)
    /\ KindOf(threads[t].req.op) # "none"
    /\ threads'[t].status = 200

\* Collection k gained one document, placed after those it had, and nothing
\* else in the store changed.
AddsOne(k) ==
    /\ Len(store'[k]) = Len(store[k]) + 1
    /\ SubSeq(store'[k], 1, Len(store[k])) = store[k]
    /\ \A c \in DOMAIN store \ {k} : store'[c] = store[c]

\* A POST that was refused was refused for its body (422) or by the store
\* (400, the store's error), never for what other collections hold.
RefusedByBodyOrStore(t) ==
    \/ threads'[t].status = 422
    \/ /\ threads'[t].status = 400
       /\ ValueOf(threads'[t].body).detail = Str("StorageError")

\* C10: under any interleaving of requests, a step that answers a POST with
\* 200 adds exactly one document to the collection of the POST's own kind and
\* leaves the other collections and every existing document as they were;
\* every other step (a refused POST, any GET, a request arriving) leaves the
\* whole store unchanged; and a POST is refused only for its body or by the
\* store, never by a check against other entities.
C10_Frame ==
    [][/\ \A t \in Threads :
             Created(t) => AddsOne(KindOf(threads[t].req.op))
       /\ (\A t \in Threads : ~Created(t)) => store' = store
       /\ \A t \in Threads :
             (Served(t) /\ KindOf(threads[t].req.op) # "none" /\ ~Created(t))
                 => RefusedByBodyOrStore(t)]_vars

\* A task naming list "L1" is stored and was answered 200 while the other
\* thread's POST /lists is still in flight and no list exists.
C10_Witness ==
    \E t, u \in Threads :
        /\ t # u
        /\ threads[t].pc = "served"
        /\ threads[t].req.op = "create_task"
        /\ threads[t].status = 200
        /\ threads[u].pc = "accepted"
        /\ threads[u].req.op = "create_list"
        /\ store.task # <<>>
        /\ store.listmodel = <<>>

====
